---- MODULE Spec2Model ----
(***************************************************************************)
(* Dataset core of the syntrabi backend: the connector registry, the CSV   *)
(* type-inference engine, the schema cache (fetch_and_cache_schema), the   *)
(* dataset lifecycle (create_dataset, refresh_dataset, delete_dataset) and *)
(* the query executor (query_dataset).                                     *)
(*                                                                         *)
(* Conventions.  A Python string that the code inspects character by       *)
(* character (a CSV cell) is a sequence of one-character strings.  An      *)
(* Optional value is a sequence of length at most one (<<>> is None).  An  *)
(* error message is a sequence of text fragments, so that "the message     *)
(* carries the underlying text" is "the fragment occurs in the sequence".  *)
(***************************************************************************)
EXTENDS Integers, Sequences, FiniteSets, TLC

(***************************************************************************)
(* Bounds of the model (not program constants).                            *)
(***************************************************************************)
MaxColumnLen == 2
MaxBackendRows == 1500

(***************************************************************************)
(* Program constants.                                                      *)
(***************************************************************************)
SyntheticRowCap == 1000
DefaultQueryLimit == 100
SampleRowLimit == 100
StoredSampleRows == 10

None == <<>>
Some(x) == <<x>>

Min(a, b) == IF a < b THEN a ELSE b
Max(a, b) == IF a > b THEN a ELSE b

Range(s) == {s[i] : i \in 1..Len(s)}

(***************************************************************************)
(* Python string primitives used by _infer_column_type.                    *)
(***************************************************************************)
Digits == <<"0", "1", "2", "3", "4", "5", "6", "7", "8", "9">>
UpperChars == <<"A", "B", "C", "D", "E", "F", "G", "H", "I", "J", "K", "L", "M",
                "N", "O", "P", "Q", "R", "S", "T", "U", "V", "W", "X", "Y", "Z">>
LowerChars == <<"a", "b", "c", "d", "e", "f", "g", "h", "i", "j", "k", "l", "m",
                "n", "o", "p", "q", "r", "s", "t", "u", "v", "w", "x", "y", "z">>
Whitespace == {" "}

IsDigit(c) == c \in Range(Digits)
DigitVal(c) == (CHOOSE i \in 1..10 : Digits[i] = c) - 1

\* str.lower() on one character and on a string
LowerChar(c) ==
    IF c \in Range(UpperChars)
    THEN LowerChars[CHOOSE i \in 1..26 : UpperChars[i] = c]
    ELSE c
PyLower(s) == [i \in 1..Len(s) |-> LowerChar(s[i])]

\* str.strip(): drop leading and trailing whitespace
RECURSIVE LStrip(_)
LStrip(s) ==
    IF s # <<>> /\ Head(s) \in Whitespace THEN LStrip(Tail(s)) ELSE s
RECURSIVE RStrip(_)
RStrip(s) ==
    IF s # <<>> /\ s[Len(s)] \in Whitespace
    THEN RStrip(SubSeq(s, 1, Len(s) - 1))
    ELSE s
PyStrip(s) == RStrip(LStrip(s))

HasSign(s) == s # <<>> /\ Head(s) \in {"+", "-"}
Unsigned(s) == IF HasSign(s) THEN Tail(s) ELSE s

\* digit (_? digit)* : the digit-group grammar of int() and float()
RECURSIVE IsDigitGroup(_)
IsDigitGroup(s) ==
    /\ s # <<>>
    /\ IsDigit(Head(s))
    /\ \/ Len(s) = 1
       \/ IsDigitGroup(Tail(s))
       \/ Len(s) >= 3 /\ s[2] = "_" /\ IsDigitGroup(SubSeq(s, 3, Len(s)))

\* the digits of a digit group, read as a natural number
RECURSIVE DigitsValue(_, _)
DigitsValue(s, acc) ==
    IF s = <<>> THEN acc
    ELSE IF Head(s) = "_" THEN DigitsValue(Tail(s), acc)
    ELSE DigitsValue(Tail(s), acc * 10 + DigitVal(Head(s)))

\* int(v) succeeds (no ValueError): [ws] [sign] digit-group [ws]
PyIntParses(v) == IsDigitGroup(Unsigned(PyStrip(v)))

PyInt(v) ==
    LET t == PyStrip(v)
        n == DigitsValue(Unsigned(t), 0)
    IN  IF t # <<>> /\ Head(t) = "-" THEN 0 - n ELSE n

\* str(n) for an integer n
RECURSIVE NatStr(_)
NatStr(n) ==
    IF n < 10 THEN <<Digits[n + 1]>>
    ELSE NatStr(n \div 10) \o <<Digits[(n % 10) + 1]>>
PyStr(n) == IF n < 0 THEN <<"-">> \o NatStr(0 - n) ELSE NatStr(n)

\* float(v): [ws] [sign] (digits [. [digits]] | . digits | inf | infinity | nan) [ws]
\* (exponent notation is outside the alphabet of the modelled cells)
DotIndex(s) == IF \E i \in 1..Len(s) : s[i] = "."
               THEN CHOOSE i \in 1..Len(s) : s[i] = "." /\ \A j \in 1..(i - 1) : s[j] # "."
               ELSE 0

IsFloatSpecial(s) ==
    PyLower(s) \in {<<"i", "n", "f">>, <<"n", "a", "n">>,
                    <<"i", "n", "f", "i", "n", "i", "t", "y">>}

IsDecimalNumber(s) ==
    LET d == DotIndex(s)
        ip == IF d = 0 THEN s ELSE SubSeq(s, 1, d - 1)
        fp == IF d = 0 THEN <<>> ELSE SubSeq(s, d + 1, Len(s))
    IN  /\ ip # <<>> \/ fp # <<>>
        /\ ip = <<>> \/ IsDigitGroup(ip)
        /\ fp = <<>> \/ IsDigitGroup(fp)

PyFloatParses(v) ==
    LET u == Unsigned(PyStrip(v))
    IN  IsFloatSpecial(u) \/ IsDecimalNumber(u)

\* bool(float(v)): a float is falsy exactly when it is (plus or minus) zero
PyFloatTruthy(v) ==
    LET u == Unsigned(PyStrip(v))
    IN  IF IsFloatSpecial(u) THEN TRUE
        ELSE DigitsValue(SelectSeq(u, LAMBDA c : c # "."), 0) # 0

\* re.match of the three date patterns of _infer_column_type
MatchesPattern(v, pat) ==
    /\ Len(v) = Len(pat)
    /\ \A i \in 1..Len(pat) :
          IF pat[i] = "d" THEN IsDigit(v[i]) ELSE v[i] = pat[i]

date_patterns ==
    << <<"d", "d", "d", "d", "-", "d", "d", "-", "d", "d">>,
       <<"d", "d", "/", "d", "d", "/", "d", "d", "d", "d">>,
       <<"d", "d", "-", "d", "d", "-", "d", "d", "d", "d">> >>

boolean_values ==
    { <<"t", "r", "u", "e">>, <<"f", "a", "l", "s", "e">>, <<"y", "e", "s">>,
      <<"n", "o">>, <<"1">>, <<"0">>, <<"y">>, <<"n">> }

(***************************************************************************)
(* DatasetService._infer_column_type (dataset_service.py 359-417).         *)
(* sample_rows is a sequence of rows, a row a sequence of cells; col_index *)
(* is 1-based here (Python's col_index + 1).                               *)
(***************************************************************************)
\* lines 366-369: the stripped non-blank cells of the column, in row order
sample_values(sample_rows, col_index) ==
    LET kept == SelectSeq(sample_rows,
                    LAMBDA row : col_index <= Len(row) /\ PyStrip(row[col_index]) # <<>>)
    IN  [i \in 1..Len(kept) |-> PyStrip(kept[i][col_index])]

\* lines 376-381: all(str(int(v)) == v ...); a ValueError leaves the check failed
all_integers(values) ==
    \A i \in 1..Len(values) :
        PyIntParses(values[i]) /\ PyStr(PyInt(values[i])) = values[i]

\* lines 384-389: all('.' in v and float(v) ...)
all_decimals(values) ==
    \A i \in 1..Len(values) :
        /\ "." \in Range(values[i])
        /\ PyFloatParses(values[i])
        /\ PyFloatTruthy(values[i])

\* lines 392-397: all(float(v) ...)
all_numbers(values) ==
    \A i \in 1..Len(values) :
        PyFloatParses(values[i]) /\ PyFloatTruthy(values[i])

\* lines 400-402
all_booleans(values) ==
    \A i \in 1..Len(values) : PyLower(values[i]) \in boolean_values

\* lines 406-414
all_dates(values) ==
    \E p \in 1..Len(date_patterns) :
        \A i \in 1..Len(values) : MatchesPattern(values[i], date_patterns[p])

InferColumnType(sample_rows, col_index) ==
    LET values == sample_values(sample_rows, col_index)
    IN  IF sample_rows = <<>> THEN "string"
        ELSE IF values = <<>> THEN "string"
        ELSE IF all_integers(values) THEN "integer"
        ELSE IF all_decimals(values) THEN "decimal"
        ELSE IF all_numbers(values) THEN "decimal"
        ELSE IF all_booleans(values) THEN "boolean"
        ELSE IF all_dates(values) THEN "date"
        ELSE "string"

(***************************************************************************)
(* Cells fed to the inference engine: blanks, canonical and non-canonical  *)
(* integer literals, decimals (zero included), booleans, dates, text.      *)
(***************************************************************************)
CellValues ==
    { <<>>,
      <<" ">>,
      <<"0">>,
      <<"1">>,
      <<"5">>,
      <<"-", "5">>,
      <<"+", "5">>,
      <<"0", "0", "7">>,
      <<"0", "0">>,
      <<" ", "7", " ">>,
      <<"1", "_", "0">>,
      <<"0", ".", "0">>,
      <<"0", ".", "5">>,
      <<"2", ".", "5">>,
      <<"-", "0", ".", "0">>,
      <<"7", ".">>,
      <<".", "5">>,
      <<"1", ".", "2", ".", "3">>,
      <<"n", "a", "n">>,
      <<"a", "b", "c">>,
      <<"t", "r", "u", "e">>,
      <<"Y", "e", "s">>,
      <<"N">>,
      <<"2", "0", "2", "4", "-", "0", "1", "-", "0", "1">>,
      <<"0", "1", "/", "0", "2", "/", "2", "0", "2", "4">>,
      <<"0", "1", "-", "0", "2", "-", "2", "0", "2", "4">>,
      <<"2", "0", "2", "4", "-", "1", "-", "1">> }

\* one-column samples of at most MaxColumnLen rows; <<>> is a row too short
\* to have the column
SampleRowsOfLen(n) == [1..n -> {<<c>> : c \in CellValues} \cup {<<>>}]
SampleInputs == UNION {SampleRowsOfLen(n) : n \in 0..MaxColumnLen}

(***************************************************************************)
(* Connector types.  ConnectorType is every member the service and the     *)
(* registry refer to; EnumMembers are the members models/dataset.py        *)
(* declares.  The services are modelled as a library over ConnectorType.   *)
(***************************************************************************)
EnumMembers ==
    {"CSV", "POSTGRESQL", "MYSQL", "BIGQUERY", "SNOWFLAKE", "EXCEL", "JSON", "REST_API"}

ConnectorType ==
    EnumMembers \cup
    {"TEXT_CSV", "SQL_SERVER", "MARIADB", "ORACLE", "DATABRICKS", "AZURE_DATABRICKS",
     "TERADATA", "WEB", "ODATA", "SPARK", "ODBC", "JDBC"}

\* DataConnectorFactory._connectors: type -> connector class
_connectors ==
    [t \in {"SQL_SERVER", "POSTGRESQL", "MYSQL", "MARIADB", "TERADATA", "DATABRICKS",
            "AZURE_DATABRICKS", "CSV", "TEXT_CSV", "EXCEL", "WEB", "REST_API", "ODATA",
            "SPARK", "ODBC", "JDBC"} |->
        CASE t = "SQL_SERVER" -> "SQLServerConnector"
          [] t = "POSTGRESQL" -> "PostgreSQLConnector"
          [] t = "MYSQL" -> "MySQLConnector"
          [] t = "MARIADB" -> "MariaDBConnector"
          [] t = "TERADATA" -> "TeradataConnector"
          [] t \in {"DATABRICKS", "AZURE_DATABRICKS"} -> "DatabricksConnector"
          [] t \in {"CSV", "TEXT_CSV"} -> "CSVFileConnector"
          [] t = "EXCEL" -> "ExcelConnector"
          [] t \in {"WEB", "REST_API"} -> "WebAPIConnector"
          [] t = "ODATA" -> "ODataConnector"
          [] t = "SPARK" -> "SparkConnector"
          [] t = "ODBC" -> "ODBCConnector"
          [] t = "JDBC" -> "JDBCConnector"]

\* connector classes whose operations reach a backend; the other classes
\* answer with a fixed "requires driver" note, or raise NotImplementedError
ImplementedConnectors ==
    {"SQLServerConnector", "PostgreSQLConnector", "MySQLConnector", "MariaDBConnector",
     "CSVFileConnector", "ExcelConnector"}

\* the only class whose get_schema takes schema_filter / limit_tables
AcceptsSchemaFilter == {"PostgreSQLConnector"}

\* create_dataset's list of database types (lines 54-64)
DatabaseTypes ==
    {"POSTGRESQL", "MYSQL", "SQL_SERVER", "MARIADB", "BIGQUERY", "SNOWFLAKE", "ORACLE",
     "DATABRICKS", "AZURE_DATABRICKS"}
\* query_dataset's lists (lines 606 and 633-638)
CsvQueryTypes == {"CSV", "TEXT_CSV"}
LiveQueryTypes == {"POSTGRESQL", "MYSQL", "BIGQUERY", "SNOWFLAKE"}

DatasetStatus == {"PENDING", "PROCESSING", "READY", "ERROR", "REFRESHING"}

\* DataConnectorFactory.create_connector: the class, or None for ValueError
create_connector_defaulting(connector_type) ==
    IF connector_type \in DOMAIN _connectors
    THEN Some(_connectors[connector_type])
    ELSE Some("CSVFileConnector")
create_connector(connector_type) ==
    IF connector_type \in DOMAIN _connectors
    THEN Some(_connectors[connector_type])
    ELSE None

UnsupportedTypeError(connector_type) ==
    <<"Unsupported connector type: ", connector_type>>
SchemaFilterTypeError ==
    <<"get_schema() got an unexpected keyword argument 'schema_filter'">>

(***************************************************************************)
(* Canonical schema documents.                                             *)
(***************************************************************************)
Col(n, t) == [name |-> n, type |-> t]
TableSchema(n, cols, rc) == [name |-> n, columns |-> cols, rowCount |-> rc]
SchemaDoc(ts, msg) == [tables |-> ts, message |-> msg]

\* create_dataset lines 71-74
PlaceholderSchema == SchemaDoc(<<>>, TRUE)

\* type_mapping (lines 197-220 and 516-526), keyed by the lower-cased base name
type_mapping ==
    [b \in {"integer", "bigint", "smallint", "numeric", "decimal", "real",
            "double precision", "money", "character varying", "varchar", "character",
            "char", "text", "boolean", "date", "timestamp",
            "timestamp without time zone", "timestamp with time zone", "time", "json",
            "jsonb", "uuid"} |->
        CASE b \in {"integer", "bigint", "smallint"} -> "integer"
          [] b \in {"numeric", "decimal", "real", "double precision", "money"} -> "decimal"
          [] b = "boolean" -> "boolean"
          [] b = "date" -> "date"
          [] b \in {"timestamp", "timestamp without time zone",
                    "timestamp with time zone", "time"} -> "datetime"
          [] OTHER -> "string"]

\* A native type name as a backend reports it: the lower-case spelling of its
\* base name, whether the backend spells it in upper case, and whether a
\* parenthesised precision follows (after a blank or not).
NativeType(b, up, args, sp) == [base |-> b, upper |-> up, args |-> args, space |-> sp]
\* col['type'].lower()
native_lower(nt) == [nt EXCEPT !.upper = FALSE]
\* .split('(')[0]
native_split(nt) == [nt EXCEPT !.args = FALSE]
\* .strip()
native_strip(nt) == [nt EXCEPT !.space = FALSE]
\* type_mapping.get(base_type, 'string'): the key matches only a bare lower-case name
mapped_type_native(nt) ==
    LET base_type == native_strip(native_split(native_lower(nt)))
    IN  IF base_type.base \in DOMAIN type_mapping
        THEN type_mapping[base_type.base]
        ELSE base_type.base
mapped_type(nt) ==
    LET base_type == native_strip(native_split(native_lower(nt)))
    IN  IF /\ ~base_type.upper /\ ~base_type.args /\ ~base_type.space
           /\ base_type.base \in DOMAIN type_mapping
        THEN type_mapping[base_type.base]
        ELSE "string"

\* lines 528-548 (and 187-235): one table of a backend catalog, normalised
table_schema(table_info) ==
    TableSchema(<<table_info.schema, ".", table_info.name>>,
                [i \in 1..Len(table_info.columns) |->
                    Col(table_info.columns[i].name, mapped_type(table_info.columns[i].type))],
                0)

\* sample_schemas (lines 265-326) and its default
sample_schemas(connector_type) ==
    CASE connector_type = "POSTGRESQL" ->
           SchemaDoc(<< TableSchema(<<"users">>,
                           <<Col(<<"user_id">>, "integer"), Col(<<"username">>, "string"),
                             Col(<<"email">>, "string"), Col(<<"created_at">>, "datetime"),
                             Col(<<"is_active">>, "boolean"), Col(<<"profile_score">>, "decimal")>>,
                           15000),
                        TableSchema(<<"orders">>,
                           <<Col(<<"order_id">>, "integer"), Col(<<"user_id">>, "integer"),
                             Col(<<"product_name">>, "string"), Col(<<"quantity">>, "integer"),
                             Col(<<"price">>, "decimal"), Col(<<"order_date">>, "date"),
                             Col(<<"status">>, "string")>>,
                           45000) >>, FALSE)
      [] connector_type = "MYSQL" ->
           SchemaDoc(<< TableSchema(<<"products">>,
                           <<Col(<<"product_id">>, "integer"), Col(<<"product_name">>, "string"),
                             Col(<<"category">>, "string"), Col(<<"price">>, "decimal"),
                             Col(<<"stock_quantity">>, "integer"), Col(<<"supplier_id">>, "integer"),
                             Col(<<"last_updated">>, "datetime")>>,
                           2500) >>, FALSE)
      [] connector_type = "BIGQUERY" ->
           SchemaDoc(<< TableSchema(<<"analytics_events">>,
                           <<Col(<<"event_timestamp">>, "datetime"), Col(<<"user_id">>, "string"),
                             Col(<<"session_id">>, "string"), Col(<<"event_name">>, "string"),
                             Col(<<"event_value">>, "decimal"), Col(<<"user_properties">>, "string"),
                             Col(<<"device_category">>, "string")>>,
                           1200000) >>, FALSE)
      [] OTHER -> SchemaDoc(<<>>, FALSE)

RECURSIVE SumRowCounts(_)
SumRowCounts(ts) == IF ts = <<>> THEN 0 ELSE Head(ts).rowCount + SumRowCounts(Tail(ts))

(***************************************************************************)
(* The environment: what a backend answers.                                *)
(***************************************************************************)
DescribeTableLimit == 50

BackendUsers ==
    [schema |-> "public", name |-> "users",
     columns |-> << Col(<<"id">>, NativeType("integer", FALSE, FALSE, FALSE)),
                    Col(<<"email">>, NativeType("character varying", FALSE, TRUE, FALSE)),
                    Col(<<"location">>, NativeType("geometry", FALSE, FALSE, FALSE)) >>]
BackendOrders ==
    [schema |-> "public", name |-> "orders",
     columns |-> << Col(<<"total">>, NativeType("numeric", TRUE, TRUE, TRUE)),
                    Col(<<"created">>, NativeType("timestamp without time zone", FALSE, FALSE, FALSE)) >>]

SchemaError == "connection refused"
QueryError == "relation does not exist"

\* answers of PostgreSQLConnector.get_schema: {"error": msg} or {"tables": [...]}
SchemaAnswers ==
    { [error |-> Some(SchemaError), tables |-> <<>>],
      [error |-> None, tables |-> <<>>],
      [error |-> None, tables |-> <<BackendUsers>>],
      [error |-> None, tables |-> <<BackendUsers, BackendOrders>>] }

\* what the backend holds when a query runs: an error, or a number of rows
QueryBackends ==
    { [error |-> Some(QueryError), avail |-> 0] } \cup
    { [error |-> None, avail |-> n] : n \in {0, 2, MaxBackendRows} }

(***************************************************************************)
(* Uploaded files.  A file is its decoding outcome and the rows csv.reader *)
(* yields (the header row first); the byte-level decoding and the CSV      *)
(* tokenisation themselves are not modelled.                               *)
(***************************************************************************)
File(dec, ls) == [decodable |-> dec, lines |-> ls]
FileExample ==
    File(TRUE,
        <<<<<<"i", "d">>, <<"n", "a", "m", "e">>, <<"s", "c", "o", "r", "e">>>>,
          <<<<"1">>, <<"A", "l", "i", "c", "e">>, <<"9", ".", "5">>>>,
          <<<<"2">>, <<"B", "o", "b">>, <<"7">>>>>>)
FileHeaderOnly ==
    File(TRUE,
        <<<<<<"i", "d">>, <<"n", "a", "m", "e">>>>>>)
FileZeros ==
    File(TRUE,
        <<<<<<"q", "t", "y">>, <<" ", "r", "a", "t", "e", " ">>>>,
          <<<<"0", "0", "7">>, <<"0", ".", "0">>>>,
          <<<<"+", "5">>, <<"1", ".", "5">>>>,
          <<<<"1", "2">>>>>>)
FileLong ==
    File(TRUE,
        <<<<<<"n">>>>,
          <<<<"1">>>>,
          <<<<"2">>>>,
          <<<<"3">>>>,
          <<<<"4">>>>,
          <<<<"5">>>>,
          <<<<"6">>>>,
          <<<<"7">>>>,
          <<<<"8">>>>,
          <<<<"9">>>>,
          <<<<"1", "0">>>>,
          <<<<"1", "1">>>>,
          <<<<"1", "2">>>>>>)
\* one row more than the sample holds; the last row is not a number
FileHuge ==
    File(TRUE,
        <<<<<<"n">>>>>> \o [i \in 1..SampleRowLimit |-> <<<<"1">>>>] \o <<<<<<"x">>>>>>)
FileUndecodable == File(FALSE, <<>>)
FileEmptyText == File(TRUE, <<>>)
FileBlankHeader == File(TRUE, << <<>>, <<<<"1">>>> >>)

\* b"" is the only content csv.reader reads no row from
EmptyBytes(f) == f.decodable /\ f.lines = <<>>

\* file_content arguments: None, or the bytes of a file (FileEmptyText is b"")
FileContents ==
    {None} \cup {Some(f) : f \in {FileExample, FileHeaderOnly, FileZeros, FileLong, FileHuge,
                                  FileUndecodable, FileEmptyText, FileBlankHeader}}

DecodeErrorText == "'utf-8' codec can't decode byte"
NoHeadersText == "CSV file is empty or has no headers"

\* sample_rows[:n] for a non-negative n
Prefix(seq, n) == SubSeq(seq, 1, Min(n, Len(seq)))
\* Python's seq[:n] for any integer n
PySlicePrefix(seq, n) ==
    IF n >= 0 THEN Prefix(seq, n) ELSE Prefix(seq, Max(Len(seq) + n, 0))

(***************************************************************************)
(* The connector layer on its own (data_connectors.py): the factory, the   *)
(* connectors' constructors and test_connection, and                       *)
(* DataSourceManager.test_data_source.                                     *)
(***************************************************************************)
\* the "required" lists of get_connector_requirements (lines 877-945)
required_fields(connector_type) ==
    CASE connector_type = "SQL_SERVER" -> {"server", "database"}
      [] connector_type \in {"POSTGRESQL", "MYSQL", "MARIADB", "TERADATA"} ->
             {"host", "database", "username", "password"}
      [] connector_type = "DATABRICKS" -> {"server_hostname", "http_path", "access_token"}
      [] connector_type = "SPARK" -> {"host", "database"}
      [] connector_type \in {"ODATA", "WEB"} -> {"url"}
      [] connector_type = "JDBC" -> {"jdbc_url", "driver_class"}
      [] connector_type \in {"CSV", "EXCEL"} -> {"file_path"}
      [] OTHER -> {}

\* A configuration: the fields it has, and whether its credential values are
\* strings (a JSON body can carry null or a number instead).
Config(fields, text) == [fields |-> fields, text |-> text]
Configs(connector_type) ==
    {Config(fields, text) :
        fields \in {required_fields(connector_type), {}}
                   \cup {required_fields(connector_type) \ {f} :
                            f \in required_fields(connector_type)},
        text \in BOOLEAN}

\* constructors that pass username and password through quote_plus
\* (lines 68, 178, 303, 404, 419), which raises TypeError on a non-string
QuotesCredentials ==
    {"SQLServerConnector", "PostgreSQLConnector", "MySQLConnector", "MariaDBConnector",
     "TeradataConnector"}
QuoteTypeError == <<"quote_from_bytes() expected bytes">>

\* classes that leave abstract methods of DataSourceConnector (lines 33-51)
\* undefined: WebAPIConnector (597-655) has no execute_query and no
\* get_sample_data, so instantiating it raises TypeError
AbstractConnectors == {"WebAPIConnector"}
AbstractClassError == <<"Can't instantiate abstract class ", "WebAPIConnector">>

constructor_raises(class, config) ==
    \/ class \in AbstractConnectors
    \/ /\ class \in QuotesCredentials
       /\ ~config.text
       /\ config.fields \cap {"username", "password"} # {}

\* outcomes of the round trip a test_connection makes
RoundTrips == {"ok", "empty", "refused"}
RefusedText == "connection refused"

\* test_connection of a connector class: the pair returned and the number of
\* network or file accesses attempted; no class lets an exception out
test_connection_unguarded(class, outcome) ==
    IF class \in ImplementedConnectors /\ outcome = "refused"
    THEN [success |-> FALSE, message |-> <<RefusedText>>, io |-> 1, raises |-> TRUE]
    ELSE [success |-> TRUE, message |-> <<"Connection successful">>,
          io |-> IF class \in ImplementedConnectors THEN 1 ELSE 0, raises |-> FALSE]
test_connection(class, outcome) ==
    CASE class \in {"SQLServerConnector", "PostgreSQLConnector", "MySQLConnector",
                    "MariaDBConnector"} ->
             IF outcome = "refused"
             THEN [success |-> FALSE, message |-> <<"Connection failed: ", RefusedText>>,
                   io |-> 1, raises |-> FALSE]
             ELSE [success |-> TRUE, message |-> <<"Connection successful">>,
                   io |-> 1, raises |-> FALSE]
      [] class = "CSVFileConnector" ->
             IF outcome = "refused"
             THEN [success |-> FALSE, message |-> <<"Cannot access file: ", RefusedText>>,
                   io |-> 1, raises |-> FALSE]
             ELSE IF outcome = "empty"
             THEN [success |-> FALSE, message |-> <<"File is empty">>,
                   io |-> 1, raises |-> FALSE]
             ELSE [success |-> TRUE, message |-> <<"File accessible">>,
                   io |-> 1, raises |-> FALSE]
      [] class = "ExcelConnector" ->
             IF outcome = "refused"
             THEN [success |-> FALSE,
                   message |-> <<"Cannot access Excel file: ", RefusedText>>,
                   io |-> 1, raises |-> FALSE]
             ELSE [success |-> TRUE, message |-> <<"Excel file accessible">>,
                   io |-> 1, raises |-> FALSE]
      [] class = "WebAPIConnector" ->
             [success |-> FALSE,
              message |-> <<"Connection failed: ", "HTTP connector requires aiohttp dependency">>,
              io |-> 0, raises |-> FALSE]
      [] OTHER ->
             [success |-> TRUE, message |-> <<"connector configured (requires driver)">>,
              io |-> 0, raises |-> FALSE]

\* what a call did: the exception that left it, the connector it built, the
\* value it returned, the accesses it attempted, and the registry's keys after it
\* (trip: how the round trip it made went, "none" when it made none; engine:
\* the SQLAlchemy engine the call created, "none" when it created none; query
\* and limit: the arguments of an execute_query call)
Call(op, connector_type, config, raised, error, instance, result, io, trip) ==
    [op |-> op, connector_type |-> connector_type, config |-> config, raised |-> raised,
     error |-> error, instance |-> instance, result |-> result, io |-> io, trip |-> trip,
     registry |-> DOMAIN _connectors, engine |-> "none", query |-> None, limit |-> 0]

\* the classes whose methods open an engine with create_async_engine
RelationalConnectors ==
    {"SQLServerConnector", "PostgreSQLConnector", "MySQLConnector", "MariaDBConnector"}

\* the engine when test_connection, get_schema or execute_query of a class
\* returns: "await engine.dispose()" (lines 76, 123, 186, 250, 270, 311, 350,
\* 370) follows the "async with" block inside the try, so an exception in the
\* block goes to the except clause and the engine is left as it is
engine_after(class, failed) ==
    IF class \notin RelationalConnectors THEN "none"
    ELSE IF failed THEN "open"
    ELSE "disposed"
NoCall == Call("none", "none", Config({}, TRUE), FALSE, None, None, None, 0, "none")

\* DataConnectorFactory.create_connector(connector_type, config), lines 860-867
factory_create(connector_type, config) ==
    LET class == create_connector(connector_type)
    IN  IF class = None
        THEN [raised |-> TRUE, error |-> UnsupportedTypeError(connector_type),
              instance |-> None]
        ELSE IF constructor_raises(class[1], config)
        THEN [raised |-> TRUE,
              error |-> IF class[1] \in AbstractConnectors THEN AbstractClassError
                        ELSE QuoteTypeError,
              instance |-> None]
        ELSE [raised |-> FALSE, error |-> None, instance |-> class]

\* DataSourceManager.test_data_source, lines 951-971
TestFailedPrefix == "Connection test failed: "
test_data_source(connector_type, config, outcome) ==
    LET c == factory_create(connector_type, config)
        t == test_connection(c.instance[1], outcome)
    IN  IF c.raised
        THEN [success |-> FALSE, message |-> <<TestFailedPrefix>> \o c.error,
              instance |-> None, io |-> 0, raised |-> FALSE]
        ELSE IF t.raises
        THEN [success |-> FALSE, message |-> <<TestFailedPrefix>> \o t.message,
              instance |-> c.instance, io |-> t.io, raised |-> FALSE]
        ELSE [success |-> t.success, message |-> t.message,
              instance |-> c.instance, io |-> t.io, raised |-> FALSE]

(***************************************************************************)
(* Persisted state.                                                        *)
(***************************************************************************)
\* The model follows one dataset from its registration on: every statement of
\* the service is keyed by one dataset id, and no call reads another dataset's row.
DatasetIds == {1}

VARIABLES
    datasets,     \* the datasets table: id -> None, or Some(row)
    tables,       \* the tables table: the Table rows, in insertion order
    registering,  \* ids whose create_dataset call has committed the PROCESSING
                  \* row (line 48) and has not yet processed the source
    next_id,      \* the next fresh dataset id
    lastOp,       \* the most recent service call and what it returned
    infer_input,  \* the sample handed to _infer_column_type
    infer_result, \* its result (None before the call)
    sessions,     \* per concurrent caller of fetch_and_cache_schema: None, or
                  \* Some of the dataset object its session loaded
    connect       \* the most recent call on the factory, a connector or the
                  \* DataSourceManager, and what it did

vars == <<datasets, tables, registering, next_id, lastOp, infer_input, infer_result, sessions, connect>>

\* the concurrent callers of fetch_and_cache_schema that are followed
Callers == {"a", "b"}

DatasetName == <<"sales">>

\* Dataset(...) as create_dataset builds it (lines 39-45); the other columns
\* take their defaults
NewDataset(connector_type) ==
    [connector_type |-> connector_type,
     name |-> DatasetName,
     status |-> "PROCESSING",
     schema_json |-> None,
     sample_rows |-> None,
     row_count |-> None,
     error_message |-> None,
     last_refresh |-> FALSE]

TableRow(d, n, cols, rc) == [dataset_id |-> d, name |-> n, columns |-> cols, row_count |-> rc]

\* the result of one service call
NoResponse == None
\* op: the call; raised/error: the exception it raised; calls: the factory and
\* connector calls it made; fetch: what fetch_and_cache_schema did inside it
\* ("none", "cached", "ok", "failed"); path: the branch of query_dataset that
\* answered; limit: the request's limit; resp: the dictionary returned
Op(op, d, raised, error, calls, fetch, path, limit, resp) ==
    [op |-> op, ds |-> d, raised |-> raised, error |-> error, calls |-> calls,
     fetch |-> fetch, path |-> path, limit |-> limit, resp |-> resp]

\* keys of the dictionaries query_dataset returns
CsvResponseKeys == {"data", "columns", "total_rows", "execution_time"}
LiveResponseKeys == {"data", "columns", "total_rows", "execution_time"}
SyntheticResponseKeys == {"data", "columns", "total_rows", "execution_time"}
Response(data, n, cols, total, keys) ==
    [data |-> data, data_len |-> n, columns |-> cols, total_rows |-> total, keys |-> keys]

Exists(d) == datasets[d] # None
Row(d) == datasets[d][1]

(***************************************************************************)
(* _process_csv_data (lines 86-164) on the caller's dataset object.        *)
(* Result: the attributes set on the object, the Table rows added, and the *)
(* exception raised, if any.                                               *)
(***************************************************************************)
CsvColumns_untyped(headers, rows) ==
    [i \in 1..Len(headers) |-> Col(PyStrip(headers[i]), "string")]
CsvColumns(headers, rows) ==
    [i \in 1..Len(headers) |-> Col(PyStrip(headers[i]), InferColumnType(rows, i))]

_process_csv_data(row, d, f) ==
    LET headers == IF f.lines = <<>> THEN <<>> ELSE Head(f.lines)
        data_rows == IF f.lines = <<>> THEN <<>> ELSE Tail(f.lines)
        sampled == Prefix(data_rows, SampleRowLimit)
        row_count == Len(data_rows)
        columns == CsvColumns(headers, sampled)
        failed(msg) ==
            [dataset |-> [row EXCEPT !.status = "ERROR", !.error_message = Some(msg)],
             add_tables |-> <<>>, raised |-> TRUE, error |-> msg]
    IN  IF ~f.decodable THEN failed(<<DecodeErrorText>>)
        ELSE IF headers = <<>> THEN failed(<<NoHeadersText>>)
        ELSE [dataset |->
                 [row EXCEPT
                    !.schema_json =
                        Some(SchemaDoc(<<TableSchema(row.name, columns, row_count)>>, FALSE)),
                    !.row_count = Some(row_count),
                    !.sample_rows = Some(Prefix(sampled, StoredSampleRows)),
                    !.status = "READY"],
              add_tables |-> <<TableRow(d, row.name, columns, row_count)>>,
              raised |-> FALSE, error |-> None]

(***************************************************************************)
(* _create_sample_schema (lines 166-357): try the real schema, fall back   *)
(* to the canned sample schema of the connector type.                      *)
(***************************************************************************)
SchemaTables(d, schema) ==
    [i \in 1..Len(schema.tables) |->
        TableRow(d, schema.tables[i].name, schema.tables[i].columns,
                 schema.tables[i].rowCount)]

\* what connector.get_schema(schema_filter='public', limit_tables=50) yields
\* for a connector class: a TypeError, or the backend's answer cut to the limit
get_schema(class, answer) ==
    IF class \notin AcceptsSchemaFilter
    THEN [raises |-> TRUE, error |-> None, tables |-> <<>>]
    ELSE [raises |-> FALSE, error |-> answer.error,
          tables |-> Prefix(answer.tables, DescribeTableLimit)]

_create_sample_schema(row, d, answer) ==
    LET connector == create_connector(row.connector_type)
        real == IF connector = None
                THEN [raises |-> TRUE, error |-> None, tables |-> <<>>]
                ELSE get_schema(connector[1], answer)
        calls == IF connector = None THEN <<"create_connector">>
                 ELSE <<"create_connector", "get_schema">>
        use_real == ~real.raises /\ real.error = None /\ real.tables # <<>>
        real_doc == SchemaDoc([i \in 1..Len(real.tables) |-> table_schema(real.tables[i])],
                              FALSE)
        fallback == sample_schemas(row.connector_type)
        schema == IF use_real THEN real_doc ELSE fallback
    IN  [dataset |->
            [row EXCEPT
               !.schema_json = Some(schema),
               !.row_count = Some(IF use_real THEN 0 ELSE SumRowCounts(schema.tables)),
               !.status = "READY"],
         add_tables |-> SchemaTables(d, schema),
         raised |-> FALSE, error |-> None, calls |-> calls]

(***************************************************************************)
(* fetch_and_cache_schema (lines 472-584) on a dataset object, given the   *)
(* Table rows in the database and the backend's answer.                    *)
(***************************************************************************)
FetchPrefix == "Failed to fetch schema: "
NoTablesText ==
    "No tables found in database. Please check your database connection and permissions."
MultipleRowsText == "Multiple rows were found when exactly one or none was required"

\* lines 481-484
SchemaIsCached_wants_message(row) ==
    /\ row.schema_json # None
    /\ row.schema_json[1].tables # <<>>
    /\ row.schema_json[1].message
SchemaIsCached(row) ==
    /\ row.schema_json # None
    /\ row.schema_json[1].tables # <<>>
    /\ Len(row.schema_json[1].tables) > 0
    /\ ~row.schema_json[1].message

Matching(rows, d, n) == {i \in 1..Len(rows) : rows[i].dataset_id = d /\ rows[i].name = n}

\* lines 528-566: the Table rows the loop adds, in order; stops at a table for
\* which scalar_one_or_none finds more than one row
RECURSIVE AddMissingTables(_, _, _, _)
AddMissingTables(infos, d, existing, added) ==
    IF infos = <<>> THEN [added |-> added, raises |-> FALSE]
    ELSE LET ts == table_schema(Head(infos))
             found == Cardinality(Matching(existing \o added, d, ts.name))
         IN  IF found > 1 THEN [added |-> added, raises |-> TRUE]
             ELSE AddMissingTables(Tail(infos), d, existing,
                      IF found = 0
                      THEN Append(added, TableRow(d, ts.name, ts.columns, 0))
                      ELSE added)

\* the except clause, lines 577-584: the attributes it sets before re-raising
fetch_failed_keeps_status(row, msg) ==
    [row EXCEPT !.error_message = Some(<<FetchPrefix>> \o msg)]
fetch_failed(row, msg) ==
    [row EXCEPT !.status = "ERROR", !.error_message = Some(<<FetchPrefix>> \o msg)]

fetch_and_cache_schema(row, d, existing, answer) ==
    LET connector == create_connector(row.connector_type)
        real == get_schema(connector[1], answer)
        loop == AddMissingTables(real.tables, d, existing, <<>>)
        failed(msg, added, calls) ==
            [dataset |-> fetch_failed(row, msg),
             add_tables |-> added, raised |-> TRUE, error |-> msg,
             calls |-> calls, fetch |-> "failed"]
    IN  IF SchemaIsCached(row)
        THEN [dataset |-> row, add_tables |-> <<>>, raised |-> FALSE, error |-> None,
              calls |-> <<>>, fetch |-> "cached"]
        ELSE IF connector = None
        THEN failed(UnsupportedTypeError(row.connector_type), <<>>, <<"create_connector">>)
        ELSE IF real.raises
        THEN failed(SchemaFilterTypeError, <<>>, <<"create_connector", "get_schema">>)
        ELSE IF real.error # None
        THEN failed(<<FetchPrefix, real.error[1]>>, <<>>, <<"create_connector", "get_schema">>)
        ELSE IF real.tables = <<>>
        THEN failed(<<NoTablesText>>, <<>>, <<"create_connector", "get_schema">>)
        ELSE IF loop.raises
        THEN failed(<<MultipleRowsText>>, loop.added, <<"create_connector", "get_schema">>)
        ELSE [dataset |->
                 [row EXCEPT
                    !.schema_json =
                        Some(SchemaDoc([i \in 1..Len(real.tables) |->
                                            table_schema(real.tables[i])], FALSE)),
                    !.status = "READY",
                    !.error_message = None],
              add_tables |-> loop.added, raised |-> FALSE, error |-> None,
              calls |-> <<"create_connector", "get_schema">>, fetch |-> "ok"]

(***************************************************************************)
(* The connectors' execute_query (PostgreSQLConnector 256-276,             *)
(* MySQLConnector 356-376).  A query text is what the connector looks at:  *)
(* whether it contains SELECT, whether it contains LIMIT, and the row      *)
(* bound its own LIMIT clause states, if it has one.                       *)
(***************************************************************************)
Query(has_select, has_limit, own_limit) ==
    [has_select |-> has_select, has_limit |-> has_limit, own_limit |-> own_limit]

\* f"{query} LIMIT {limit}" if "SELECT" in ... and "LIMIT" not in ... else query
limited_query(query, limit) ==
    IF query.has_select /\ ~query.has_limit
    THEN Query(TRUE, TRUE, Some(limit))
    ELSE query

NegativeLimitText == "LIMIT must not be negative"

\* the result dictionary: {"data", "columns", "row_count"} or {"error", ...}
execute_query_counts_source(query, limit, backend) ==
    LET q == limited_query(query, limit)
        bound == q.own_limit
        n == IF bound = None THEN backend.avail ELSE Min(backend.avail, bound[1])
    IN  IF backend.error # None
        THEN [error |-> backend.error, data_len |-> 0, row_count |-> None]
        ELSE IF bound # None /\ bound[1] < 0
        THEN [error |-> Some(NegativeLimitText), data_len |-> 0, row_count |-> None]
        ELSE [error |-> None, data_len |-> n, row_count |-> Some(backend.avail)]
execute_query(query, limit, backend) ==
    LET q == limited_query(query, limit)
        bound == q.own_limit
        n == IF bound = None THEN backend.avail ELSE Min(backend.avail, bound[1])
    IN  IF backend.error # None
        THEN [error |-> backend.error, data_len |-> 0, row_count |-> None]
        ELSE IF bound # None /\ bound[1] < 0
        THEN [error |-> Some(NegativeLimitText), data_len |-> 0, row_count |-> None]
        ELSE [error |-> None, data_len |-> n, row_count |-> Some(n)]

(***************************************************************************)
(* _generate_sample_data (lines 702-749): the number of generated rows and *)
(* the columns.                                                            *)
(***************************************************************************)
QueryLimit(limit) == IF limit = None THEN DefaultQueryLimit ELSE limit[1]

SchemaColumns(row) ==
    IF row.schema_json # None /\ row.schema_json[1].tables # <<>>
    THEN row.schema_json[1].tables[1].columns
    ELSE <<>>

_generate_sample_data(row, limit) ==
    IF row.schema_json = None \/ row.schema_json[1].tables = <<>>
    THEN [rows |-> 0, columns |-> <<>>, total_rows |-> 0]
    ELSE LET sample_count == Min(QueryLimit(limit), SyntheticRowCap)
             n == Max(sample_count, 0)
         IN  [rows |-> n, columns |-> SchemaColumns(row), total_rows |-> n]

(***************************************************************************)
(* query_dataset (lines 586-700) on the row the session loads.             *)
(***************************************************************************)
LimitInputs == {None, Some(0 - 1), Some(0), Some(2), Some(SyntheticRowCap), Some(5000)}
TableNameInputs == {None, Some(<<"public", ".", "users">>)}
QueryParams == [limit : LimitInputs, table_name : TableNameInputs]

NotFoundText == "Dataset not found"
ErrorStatePrefix == "Dataset is in error state: "
UnknownErrorText == "Unknown error"
NoCsvDataText ==
    "No data available for CSV dataset. The CSV may not have been processed correctly."
NoTableText == "No table specified and no tables found in dataset schema."
QueryFailedPrefix == "Query execution failed: "

\* names of the result set's columns, as the backend reports them
ResultColumns == << <<"id">>, <<"email">> >>

Raised(row, added, error, calls, fetch, path, params) ==
    [dataset |-> row, add_tables |-> added,
     op |-> [raised |-> TRUE, error |-> error, calls |-> calls, fetch |-> fetch,
             path |-> path, limit |-> params.limit, resp |-> NoResponse]]

Returned(row, added, calls, fetch, path, params, resp) ==
    [dataset |-> row, add_tables |-> added,
     op |-> [raised |-> FALSE, error |-> None, calls |-> calls, fetch |-> fetch,
             path |-> path, limit |-> params.limit, resp |-> Some(resp)]]

\* lines 605-630
query_csv_unsliced(row, params) ==
    IF row.sample_rows # None /\ Len(row.sample_rows[1]) > 0
    THEN LET data == row.sample_rows[1]
         IN  Returned(row, <<>>, <<>>, "none", "csv", params,
                 Response(data, Len(data), SchemaColumns(row), Len(data), CsvResponseKeys))
    ELSE Raised(row, <<>>, <<NoCsvDataText>>, <<>>, "none", "csv", params)
query_csv(row, params) ==
    IF row.sample_rows # None /\ Len(row.sample_rows[1]) > 0
    THEN LET limit == QueryLimit(params.limit)
             data == PySlicePrefix(row.sample_rows[1], limit)
         IN  Returned(row, <<>>, <<>>, "none", "csv", params,
                 Response(data, Len(data), SchemaColumns(row), Len(data), CsvResponseKeys))
    ELSE Raised(row, <<>>, <<NoCsvDataText>>, <<>>, "none", "csv", params)

\* lines 632-682
query_live(row, d, existing, params, answer, backend) ==
    LET f == fetch_and_cache_schema(row, d, existing, answer)
        row2 == f.dataset
        connector == create_connector(row2.connector_type)
        table_name ==
            IF params.table_name # None THEN params.table_name
            ELSE IF row2.schema_json # None /\ row2.schema_json[1].tables # <<>>
            THEN Some(row2.schema_json[1].tables[1].name)
            ELSE None
        limit == QueryLimit(params.limit)
        \* f"SELECT {col_str} FROM {table_name} LIMIT {limit}"
        query == Query(TRUE, TRUE, Some(limit))
        result == execute_query(query, limit, backend)
        calls == f.calls \o <<"create_connector", "execute_query">>
    IN  IF f.raised
        THEN Raised(row2, f.add_tables, f.error, f.calls, f.fetch, "live", params)
        ELSE IF connector = None
        THEN Raised(row2, f.add_tables, UnsupportedTypeError(row2.connector_type),
                    f.calls \o <<"create_connector">>, f.fetch, "live", params)
        ELSE IF table_name = None
        THEN Raised(row2, f.add_tables, <<NoTableText>>,
                    f.calls \o <<"create_connector">>, f.fetch, "live", params)
        ELSE IF result.error # None
        THEN Raised(row2, f.add_tables, <<QueryFailedPrefix, result.error[1]>>,
                    calls, f.fetch, "live", params)
        ELSE Returned(row2, f.add_tables, calls, f.fetch, "live", params,
                 Response(<<>>, result.data_len,
                          [i \in 1..Len(ResultColumns) |-> Col(ResultColumns[i], "string")],
                          IF result.row_count = None THEN 0 ELSE result.row_count[1],
                          LiveResponseKeys))

\* lines 684-696
query_synthetic(row, params) ==
    LET sample_data == _generate_sample_data(row, params.limit)
    IN  Returned(row, <<>>, <<>>, "none", "synthetic", params,
            Response(<<>>, sample_data.rows, sample_data.columns, sample_data.total_rows,
                     SyntheticResponseKeys))

\* line 602
in_error_state_unchecked(row) == FALSE
in_error_state(row) == row.status = "ERROR"

query_dataset(row, d, existing, params, answer, backend) ==
    IF in_error_state(row)
    THEN Raised(row, <<>>,
                <<ErrorStatePrefix>> \o
                    (IF row.error_message = None \/ row.error_message[1] = <<>>
                     THEN <<UnknownErrorText>> ELSE row.error_message[1]),
                <<>>, "none", "none", params)
    ELSE IF row.connector_type \in CsvQueryTypes THEN query_csv(row, params)
    ELSE IF row.connector_type \in LiveQueryTypes
    THEN query_live(row, d, existing, params, answer, backend)
    ELSE query_synthetic(row, params)

(***************************************************************************)
(* The service calls as actions.  A call runs in its own session: it loads *)
(* the row, sets attributes on its copy, and its commit writes the         *)
(* attributes it changed.  create_dataset commits the PROCESSING row       *)
(* (line 48) before it processes the source, so other calls can see and    *)
(* change the row in between; the other calls are taken as one step.       *)
(***************************************************************************)
NoOp == Op("none", 0, FALSE, None, <<>>, "none", "none", None, NoResponse)

\* the UPDATE a commit issues: the attributes whose value differs from the
\* value the session loaded
ApplyDirty(dbrow, loaded, changed) ==
    [k \in DOMAIN dbrow |-> IF changed[k] # loaded[k] THEN changed[k] ELSE dbrow[k]]

StaleText == "UPDATE statement on table 'datasets' expected to update 1 row(s); 0 were matched"

\* create_dataset, lines 39-49
CreateDataset(connector_type) ==
    /\ next_id \in DatasetIds
    /\ datasets' = [datasets EXCEPT ![next_id] = Some(NewDataset(connector_type))]
    /\ registering' = registering \cup {next_id}
    /\ next_id' = next_id + 1
    /\ lastOp' = Op("insert_dataset", next_id, FALSE, None, <<>>, "none", "none", None,
                    NoResponse)
    /\ UNCHANGED <<tables, infer_input, infer_result, sessions, connect>>

\* create_dataset, lines 51-83, on the object refreshed at line 49
process_dataset(loaded, d, file_content, answer) ==
    IF loaded.connector_type = "CSV" /\ file_content # None /\ ~EmptyBytes(file_content[1])
    THEN _process_csv_data(loaded, d, file_content[1]) @@ [calls |-> <<>>]
    ELSE IF loaded.connector_type \in DatabaseTypes
    THEN _create_sample_schema(loaded, d, answer)
    ELSE [dataset |-> [loaded EXCEPT !.status = "READY",
                                     !.schema_json = Some(PlaceholderSchema)],
          add_tables |-> <<>>, raised |-> FALSE, error |-> None, calls |-> <<>>]

\* the rest of one create_dataset call, given its file_content argument and
\* what the source's DescribeSchema answers
ProcessDatasetWith(d, file_content, answer) ==
    /\ d \in registering
    /\ registering' = registering \ {d}
    /\ IF Exists(d)
       THEN LET loaded == NewDataset(Row(d).connector_type)
                r == process_dataset(loaded, d, file_content, answer)
            IN  /\ datasets' = [datasets EXCEPT
                                  ![d] = Some(ApplyDirty(Row(d), loaded, r.dataset))]
                /\ tables' = tables \o r.add_tables
                /\ lastOp' = Op("create_dataset", d, r.raised, r.error, r.calls,
                                "none", "none", None, NoResponse)
       ELSE /\ UNCHANGED <<datasets, tables>>
            /\ lastOp' = Op("create_dataset", d, TRUE, <<StaleText>>, <<>>,
                            "none", "none", None, NoResponse)
    /\ UNCHANGED <<next_id, infer_input, infer_result, sessions, connect>>

ProcessDataset(d) ==
    \E file_content \in FileContents, answer \in SchemaAnswers :
        ProcessDatasetWith(d, file_content, answer)

\* fetch_and_cache_schema as query_dataset calls it (line 640, for the types of
\* lines 633-638), taken on its own: the call's effect before the query that
\* follows it runs
EnsureSchema(d) ==
    /\ Exists(d)
    /\ Row(d).connector_type \in LiveQueryTypes
    /\ \E answer \in SchemaAnswers :
          LET f == fetch_and_cache_schema(Row(d), d, tables, answer)
          IN  /\ datasets' = [datasets EXCEPT ![d] = Some(f.dataset)]
              /\ tables' = tables \o f.add_tables
              /\ lastOp' = Op("fetch_and_cache_schema", d, f.raised, f.error, f.calls,
                              f.fetch, "none", None, NoResponse)
    /\ UNCHANGED <<registering, next_id, infer_input, infer_result, sessions, connect>>

QueryDataset(d) ==
    /\ \E params \in QueryParams, answer \in SchemaAnswers, backend \in QueryBackends :
          IF Exists(d)
          THEN LET q == query_dataset(Row(d), d, tables, params, answer, backend)
               IN  /\ datasets' = [datasets EXCEPT ![d] = Some(q.dataset)]
                   /\ tables' = tables \o q.add_tables
                   /\ lastOp' = Op("query_dataset", d, q.op.raised, q.op.error, q.op.calls,
                                   q.op.fetch, q.op.path, q.op.limit, q.op.resp)
          ELSE /\ UNCHANGED <<datasets, tables>>
               /\ lastOp' = Op("query_dataset", d, TRUE, <<NotFoundText>>, <<>>, "none",
                               "none", params.limit, NoResponse)
    /\ UNCHANGED <<registering, next_id, infer_input, infer_result, sessions, connect>>

\* refresh_dataset, lines 751-774
refresh_dataset(row) == [row EXCEPT !.last_refresh = TRUE, !.status = "READY"]

RefreshDataset(d) ==
    /\ IF Exists(d)
       THEN /\ datasets' = [datasets EXCEPT ![d] = Some(refresh_dataset(Row(d)))]
            /\ lastOp' = Op("refresh_dataset", d, FALSE, None, <<>>, "none", "none", None,
                            NoResponse)
       ELSE /\ UNCHANGED datasets
            /\ lastOp' = Op("refresh_dataset", d, TRUE, <<NotFoundText>>, <<>>, "none",
                            "none", None, NoResponse)
    /\ UNCHANGED <<tables, registering, next_id, infer_input, infer_result, sessions, connect>>

\* delete_dataset, lines 456-470: a DELETE statement on datasets; the foreign
\* key tables.dataset_id (models/dataset.py 131) has no ON DELETE action, so
\* the statement fails while a Table row references the dataset
delete_succeeds(d) == Exists(d) /\ \A i \in 1..Len(tables) : tables[i].dataset_id # d

DeleteDataset(d) ==
    /\ datasets' = IF delete_succeeds(d) THEN [datasets EXCEPT ![d] = None] ELSE datasets
    /\ lastOp' = Op("delete_dataset", d, FALSE, None, <<>>, "none",
                    IF delete_succeeds(d) THEN "deleted" ELSE "not_deleted", None, NoResponse)
    /\ UNCHANGED <<tables, registering, next_id, infer_input, infer_result, sessions, connect>>

Init ==
    /\ datasets = [d \in DatasetIds |-> None]
    /\ tables = <<>>
    /\ registering = {}
    /\ next_id = 1
    /\ lastOp = NoOp
    /\ infer_input = <<>>
    /\ infer_result = None
    /\ sessions = [c \in Callers |-> None]
    /\ connect = NoCall

Next ==
    \/ \E t \in ConnectorType : CreateDataset(t)
    \/ \E d \in DatasetIds : ProcessDataset(d)
    \/ \E d \in DatasetIds : EnsureSchema(d)
    \/ \E d \in DatasetIds : QueryDataset(d)
    \/ \E d \in DatasetIds : RefreshDataset(d)
    \/ \E d \in DatasetIds : DeleteDataset(d)

Spec == Init /\ [][Next]_vars

(***************************************************************************)
(* The inference engine on its own: every bounded sample, one call.        *)
(***************************************************************************)
InitInfer ==
    /\ datasets = [d \in DatasetIds |-> None]
    /\ tables = <<>>
    /\ registering = {}
    /\ next_id = 1
    /\ lastOp = NoOp
    /\ infer_input \in SampleInputs
    /\ infer_result = None
    /\ sessions = [c \in Callers |-> None]
    /\ connect = NoCall

Infer ==
    /\ infer_result = None
    /\ infer_result' = Some(InferColumnType(infer_input, 1))
    /\ UNCHANGED <<datasets, tables, registering, next_id, lastOp, infer_input, sessions,
                   connect>>

NextInfer == Infer

SpecInfer == InitInfer /\ [][NextInfer]_vars

(***************************************************************************)
(* Concurrent callers of fetch_and_cache_schema.  A caller's session loads *)
(* the dataset (query_dataset line 597), awaits the connector's get_schema *)
(* (line 497) and then commits the attributes it changed on its own copy   *)
(* (lines 568-572 or 577-582); other sessions commit in between.           *)
(***************************************************************************)
Session(d, loaded, done, written) ==
    [ds |-> d, loaded |-> loaded, done |-> done, written |-> written]

\* query_dataset line 597 up to the await of line 497
BeginEnsureSchema(c, d) ==
    /\ sessions[c] = None
    /\ Exists(d)
    /\ Row(d).connector_type \in LiveQueryTypes
    /\ sessions' = [sessions EXCEPT ![c] = Some(Session(d, Row(d), FALSE, Row(d)))]
    /\ lastOp' = Op("get_dataset_by_id", d, FALSE, None, <<>>, "none", "none", None,
                    NoResponse)
    /\ UNCHANGED <<datasets, tables, registering, next_id, infer_input, infer_result, connect>>

\* the rest of fetch_and_cache_schema on the caller's copy, and its commit
FinishEnsureSchema(c) ==
    /\ sessions[c] # None
    /\ ~sessions[c][1].done
    /\ \E answer \in SchemaAnswers :
          LET s == sessions[c][1]
              f == fetch_and_cache_schema(s.loaded, s.ds, tables, answer)
          IN  /\ IF Exists(s.ds)
                 THEN /\ datasets' = [datasets EXCEPT
                                        ![s.ds] = Some(ApplyDirty(Row(s.ds), s.loaded, f.dataset))]
                      /\ tables' = tables \o f.add_tables
                 ELSE UNCHANGED <<datasets, tables>>
              /\ sessions' = [sessions EXCEPT
                                ![c] = Some(Session(s.ds, s.loaded, TRUE, f.dataset))]
              /\ lastOp' = Op("fetch_and_cache_schema", s.ds, f.raised, f.error, f.calls,
                              f.fetch, "none", None, NoResponse)
    /\ UNCHANGED <<registering, next_id, infer_input, infer_result, connect>>

NextRace ==
    \/ \E t \in LiveQueryTypes : CreateDataset(t)
    \/ \E d \in DatasetIds : ProcessDataset(d)
    \/ \E c \in Callers, d \in DatasetIds : BeginEnsureSchema(c, d)
    \/ \E c \in Callers : FinishEnsureSchema(c)

SpecRace == Init /\ [][NextRace]_vars

(***************************************************************************)
(* Calls on the connector layer.                                           *)
(***************************************************************************)
CreateConnector(connector_type) ==
    /\ \E config \in Configs(connector_type) :
          LET c == factory_create(connector_type, config)
          IN  connect' = Call("create_connector", connector_type, config, c.raised, c.error,
                              c.instance, None, 0, "none")
    /\ UNCHANGED <<datasets, tables, registering, next_id, lastOp, infer_input, infer_result,
                   sessions>>

\* test_connection on the connector the last create_connector returned
TestConnection ==
    /\ connect.op = "create_connector"
    /\ connect.instance # None
    /\ \E outcome \in RoundTrips :
          LET t == test_connection(connect.instance[1], outcome)
          IN  connect' = [Call("test_connection", connect.connector_type, connect.config,
                               t.raises, None, connect.instance,
                               IF t.raises THEN None
                               ELSE Some([success |-> t.success, message |-> t.message]),
                               t.io, IF t.io > 0 THEN outcome ELSE "none")
                            EXCEPT !.engine = engine_after(connect.instance[1],
                                                           outcome = "refused")]
    /\ UNCHANGED <<datasets, tables, registering, next_id, lastOp, infer_input, infer_result,
                   sessions>>

TestDataSource(connector_type) ==
    /\ \E config \in Configs(connector_type), outcome \in RoundTrips :
          LET r == test_data_source(connector_type, config, outcome)
          IN  connect' = [Call("test_data_source", connector_type, config, r.raised, None,
                               r.instance,
                               Some([success |-> r.success, message |-> r.message]), r.io,
                               IF r.io > 0 THEN outcome ELSE "none")
                            EXCEPT !.engine = IF r.instance = None THEN "none"
                                              ELSE engine_after(r.instance[1],
                                                                outcome = "refused")]
    /\ UNCHANGED <<datasets, tables, registering, next_id, lastOp, infer_input, infer_result,
                   sessions>>

\* get_schema() of the relational connectors (lines 81-128, 191-254, 316-354)
\* on the connector the last create_connector returned
DescribeSchema ==
    /\ connect.op = "create_connector"
    /\ connect.instance # None
    /\ connect.instance[1] \in RelationalConnectors
    /\ \E answer \in SchemaAnswers :
          connect' = [Call("get_schema", connect.connector_type, connect.config, FALSE,
                           None, connect.instance,
                           Some([error |-> answer.error, tables |-> answer.tables]), 1,
                           IF answer.error = None THEN "ok" ELSE "refused")
                        EXCEPT !.engine = engine_after(connect.instance[1],
                                                       answer.error # None)]
    /\ UNCHANGED <<datasets, tables, registering, next_id, lastOp, infer_input, infer_result,
                   sessions>>

\* query texts by what execute_query looks at: a plain SELECT, a SELECT with
\* its own LIMIT clause, a SELECT that names an identifier containing "limit"
\* (rate_limit), and a statement without SELECT (SHOW TABLES, TABLE users)
OwnLimits == {1, 5000}
QueryTexts ==
    {Query(TRUE, FALSE, None), Query(TRUE, TRUE, None), Query(FALSE, FALSE, None)}
        \cup {Query(TRUE, TRUE, Some(n)) : n \in OwnLimits}
ExecuteLimits == {0 - 1, 0, 2, SyntheticRowCap}

PandasRowsText == "'nrows' must be an integer >=0"
FetchNextText == "Incorrect syntax near 'LIMIT'"

\* execute_query(query, limit) of a connector class
connector_execute_query(class, query, limit, backend) ==
    CASE class \in {"PostgreSQLConnector", "MySQLConnector", "MariaDBConnector"} ->
             execute_query(query, limit, backend)
      [] class = "SQLServerConnector" ->
             \* lines 134-135: OFFSET 0 ROWS FETCH NEXT {limit} ROWS ONLY after a
             \* query that contains SELECT
             IF backend.error # None
             THEN [error |-> backend.error, data_len |-> 0, row_count |-> None]
             ELSE IF query.own_limit # None
             THEN [error |-> Some(FetchNextText), data_len |-> 0, row_count |-> None]
             ELSE IF query.has_select /\ limit < 0
             THEN [error |-> Some(NegativeLimitText), data_len |-> 0, row_count |-> None]
             ELSE LET n == IF query.has_select THEN Min(backend.avail, limit)
                           ELSE backend.avail
                  IN  [error |-> None, data_len |-> n, row_count |-> Some(n)]
      [] class \in {"CSVFileConnector", "ExcelConnector"} ->
             \* lines 720, 805: pandas reads nrows=limit rows of the file
             IF backend.error # None
             THEN [error |-> backend.error, data_len |-> 0, row_count |-> None]
             ELSE IF limit < 0
             THEN [error |-> Some(PandasRowsText), data_len |-> 0, row_count |-> None]
             ELSE [error |-> None, data_len |-> Min(backend.avail, limit),
                   row_count |-> Some(Min(backend.avail, limit))]
      [] OTHER ->
             \* the stubs: {"data": [], "note": ...}
             [error |-> None, data_len |-> 0, row_count |-> None]

\* execute_query on the connector the last create_connector returned
ExecuteQuery ==
    /\ connect.op = "create_connector"
    /\ connect.instance # None
    /\ \E query \in QueryTexts, limit \in ExecuteLimits, backend \in QueryBackends :
          LET class == connect.instance[1]
              r == connector_execute_query(class, query, limit, backend)
              made == class \in ImplementedConnectors
          IN  connect' = [Call("execute_query", connect.connector_type, connect.config,
                               FALSE, None, connect.instance, Some(r),
                               IF made THEN 1 ELSE 0,
                               IF ~made THEN "none"
                               ELSE IF r.error = None THEN "ok" ELSE "refused")
                            EXCEPT !.engine = engine_after(class, r.error # None),
                                   !.query = Some(query),
                                   !.limit = limit]
    /\ UNCHANGED <<datasets, tables, registering, next_id, lastOp, infer_input, infer_result,
                   sessions>>

NextConnect ==
    \/ \E t \in ConnectorType : CreateConnector(t)
    \/ TestConnection
    \/ \E t \in ConnectorType : TestDataSource(t)
    \/ DescribeSchema
    \/ ExecuteQuery

SpecConnect == Init /\ [][NextConnect]_vars

(***************************************************************************)
(* Registration under the enum as models/dataset.py declares it.  The      *)
(* service names members the enum does not declare (SQL_SERVER at line 57, *)
(* TEXT_CSV at line 606); the specifications above take every member the   *)
(* code names as declared, which is the only reading under which a call    *)
(* gets past those lines.  Here create_dataset looks the members up in the *)
(* declared enum: a request carries a declared member (routes/datasets.py  *)
(* 217, 383 build it with ConnectorType(value)), and building the list of  *)
(* lines 54-64 raises AttributeError.                                      *)
(***************************************************************************)
AttributeErrorText(name) == <<"type object 'ConnectorType' has no attribute ", name>>

\* create_dataset, lines 51-83: the except clause (80-83) rolls the session
\* back and re-raises; the PROCESSING row of line 48 is already committed
process_dataset_declared(loaded, d, file_content, answer) ==
    IF loaded.connector_type = "CSV" /\ file_content # None /\ ~EmptyBytes(file_content[1])
    THEN _process_csv_data(loaded, d, file_content[1]) @@ [calls |-> <<>>]
    ELSE IF ~(DatabaseTypes \subseteq EnumMembers)
    THEN [dataset |-> loaded, add_tables |-> <<>>, raised |-> TRUE,
          error |-> AttributeErrorText("SQL_SERVER"), calls |-> <<>>]
    ELSE process_dataset(loaded, d, file_content, answer)

ProcessDatasetDeclaredWith(d, file_content, answer) ==
    /\ d \in registering
    /\ registering' = registering \ {d}
    /\ IF Exists(d)
       THEN LET loaded == NewDataset(Row(d).connector_type)
                r == process_dataset_declared(loaded, d, file_content, answer)
            IN  /\ datasets' = [datasets EXCEPT
                                  ![d] = Some(ApplyDirty(Row(d), loaded, r.dataset))]
                /\ tables' = tables \o r.add_tables
                /\ lastOp' = Op("create_dataset", d, r.raised, r.error, r.calls,
                                "none", "none", None, NoResponse)
       ELSE \* the row is gone: a CSV request with a file fails at the commit of
            \* _process_csv_data, any other request at line 57
            /\ UNCHANGED <<datasets, tables>>
            /\ \E error \in {<<StaleText>>, AttributeErrorText("SQL_SERVER")} :
                  /\ (file_content = None \/ EmptyBytes(file_content[1]))
                         => error # <<StaleText>>
                  /\ lastOp' = Op("create_dataset", d, TRUE, error, <<>>, "none", "none",
                                  None, NoResponse)
    /\ UNCHANGED <<next_id, infer_input, infer_result, sessions, connect>>

ProcessDatasetDeclared(d) ==
    \E file_content \in FileContents, answer \in SchemaAnswers :
        ProcessDatasetDeclaredWith(d, file_content, answer)

\* query_dataset, lines 596-606 and 698-700: past the error-state check, the
\* list of line 606 names TEXT_CSV
QueryDatasetDeclared(d) ==
    /\ \E params \in QueryParams :
          lastOp' = Op("query_dataset", d, TRUE,
                       IF ~Exists(d) THEN <<NotFoundText>>
                       ELSE IF in_error_state(Row(d))
                       THEN <<ErrorStatePrefix>> \o
                                (IF Row(d).error_message = None
                                      \/ Row(d).error_message[1] = <<>>
                                 THEN <<UnknownErrorText>> ELSE Row(d).error_message[1])
                       ELSE AttributeErrorText("TEXT_CSV"),
                       <<>>, "none", "none", params.limit, NoResponse)
    /\ UNCHANGED <<datasets, tables, registering, next_id, infer_input, infer_result,
                   sessions, connect>>

NextEnum ==
    \/ \E t \in EnumMembers : CreateDataset(t)
    \/ \E d \in DatasetIds : ProcessDatasetDeclared(d)
    \/ \E d \in DatasetIds : QueryDatasetDeclared(d)
    \/ \E d \in DatasetIds : RefreshDataset(d)
    \/ \E d \in DatasetIds : DeleteDataset(d)

SpecEnum == Init /\ [][NextEnum]_vars

(***************************************************************************)
(* Properties.                                                             *)
(***************************************************************************)
\* a query_dataset call returned, and no registration was in flight
QueryReturned == lastOp.op = "query_dataset" /\ ~lastOp.raised /\ registering = {}
Carries(message, fragments) == Range(fragments) \subseteq Range(message)

\* C1: a successful query_dataset returns at most min(limit, 1000) rows on
\* every path (cached file sample, live query, synthetic generation), for
\* every non-negative limit the caller supplies.
C1_RowCapOnEveryPath ==
    (QueryReturned /\ QueryLimit(lastOp.limit) >= 0)
        => lastOp.resp[1].data_len <= Min(QueryLimit(lastOp.limit), SyntheticRowCap)

\* C2: when fetch_and_cache_schema has to fetch and the fetch fails, the call
\* raises and the dataset is persisted with status ERROR and an error_message
\* that carries the text of the failure.
C2_FetchFailurePersistsError ==
    lastOp.fetch = "failed"
        => /\ lastOp.raised
           /\ Exists(lastOp.ds)
           /\ Row(lastOp.ds).status = "ERROR"
           /\ Row(lastOp.ds).error_message # None
           /\ lastOp.error # <<>>
           /\ Carries(Row(lastOp.ds).error_message[1], lastOp.error)

\* a DescribeSchema error was recorded and raised
C2_Witness ==
    /\ lastOp.op = "fetch_and_cache_schema"
    /\ lastOp.fetch = "failed"
    /\ SchemaError \in Range(lastOp.error)
    /\ Row(lastOp.ds).status = "ERROR"

\* C3: a query_dataset call on a dataset whose status is ERROR raises with the
\* stored error message, makes no factory or connector call and changes nothing.
C3_ErrorStateFailsFast ==
    [][\A d \in DatasetIds :
          (Exists(d) /\ Row(d).status = "ERROR" /\ QueryDataset(d))
              => /\ lastOp'.raised
                 /\ lastOp'.calls = <<>>
                 /\ lastOp'.fetch = "none"
                 /\ Row(d).error_message # None
                 /\ Carries(lastOp'.error, Row(d).error_message[1])
                 /\ datasets' = datasets
                 /\ tables' = tables]_vars

\* a query was refused because the dataset is in ERROR
C3_Witness ==
    /\ lastOp.op = "query_dataset"
    /\ lastOp.raised
    /\ Exists(lastOp.ds)
    /\ Row(lastOp.ds).status = "ERROR"
    /\ Carries(lastOp.error, Row(lastOp.ds).error_message[1])

\* C4: on a dataset whose schema is present, has at least one table and is not
\* the placeholder, fetch_and_cache_schema makes no factory or connector call
\* and leaves the dataset row and the Table rows unchanged.
C4_Populated(row) ==
    /\ row.schema_json # None
    /\ Len(row.schema_json[1].tables) >= 1
    /\ ~row.schema_json[1].message

C4_EnsureSchemaIdempotent ==
    [][\A d \in DatasetIds :
          (Exists(d) /\ C4_Populated(Row(d)) /\ EnsureSchema(d))
              => /\ lastOp'.calls = <<>>
                 /\ ~lastOp'.raised
                 /\ datasets' = datasets
                 /\ tables' = tables]_vars

\* fetch_and_cache_schema returned from its cache check on a populated schema
C4_Witness ==
    /\ lastOp.op = "fetch_and_cache_schema"
    /\ lastOp.fetch = "cached"
    /\ Exists(lastOp.ds)
    /\ C4_Populated(Row(lastOp.ds))

\* C5: a dataset's status changes only along PENDING->PROCESSING,
\* PROCESSING->READY, PROCESSING->ERROR, READY->REFRESHING, REFRESHING->READY
\* and REFRESHING->ERROR.
StatusEdges ==
    { <<"PENDING", "PROCESSING">>, <<"PROCESSING", "READY">>, <<"PROCESSING", "ERROR">>,
      <<"READY", "REFRESHING">>, <<"REFRESHING", "READY">>, <<"REFRESHING", "ERROR">> }

C5_StatusEdgesOnly ==
    [][\A d \in DatasetIds :
          (/\ Exists(d) /\ datasets'[d] # None
           /\ registering = {}
           /\ datasets'[d][1].status # Row(d).status)
              => <<Row(d).status, datasets'[d][1].status>> \in StatusEdges]_vars

\* C6: a response of the synthetic generator is returned only for datasets
\* whose connector type has no implemented connector class in the registry.
HasImplementedConnector(connector_type) ==
    /\ connector_type \in DOMAIN _connectors
    /\ _connectors[connector_type] \in ImplementedConnectors

C7_SyntheticResponseMarked ==
    (QueryReturned /\ lastOp.path = "synthetic")
        => \E k \in lastOp.resp[1].keys : k \notin CsvResponseKeys \cup LiveResponseKeys

\* C8: when query_dataset raises after a factory or connector call it made
\* failed, the dataset is persisted with status ERROR and an error_message
\* carrying the text of the failure.
C8_ConnectorFailureRecorded ==
    (lastOp.op = "query_dataset" /\ lastOp.raised /\ lastOp.calls # <<>> /\ registering = {})
        => /\ Row(lastOp.ds).status = "ERROR"
           /\ Row(lastOp.ds).error_message # None
           /\ Carries(Row(lastOp.ds).error_message[1], lastOp.error)

\* C9: a column whose non-blank sample values all parse as numbers, at least
\* one of them not as an integer, is inferred decimal.
C9_Values == sample_values(infer_input, 1)

C9_NumericColumnIsDecimal ==
    ( /\ infer_result # None
      /\ C9_Values # <<>>
      /\ \A i \in 1..Len(C9_Values) : PyFloatParses(C9_Values[i])
      /\ \E i \in 1..Len(C9_Values) : ~PyIntParses(C9_Values[i]) )
        => infer_result = Some("decimal")

\* C10: a column whose non-blank sample values all parse as integers is
\* inferred integer.
C10_IntegerColumnIsInteger ==
    ( /\ infer_result # None
      /\ C9_Values # <<>>
      /\ \A i \in 1..Len(C9_Values) : PyIntParses(C9_Values[i]) )
        => infer_result = Some("integer")

\* C11: a column that is not integer, decimal or boolean and whose non-blank
\* sample values each match at least one of the date patterns is inferred
\* date; a column in none of the classes, or with no non-blank value, is
\* inferred string.
C11_IsDateValue(v) == \E p \in 1..Len(date_patterns) : MatchesPattern(v, date_patterns[p])

C11_NumericOrBoolean(values) ==
    \/ \A i \in 1..Len(values) : PyFloatParses(values[i])
    \/ \A i \in 1..Len(values) : PyLower(values[i]) \in boolean_values

C11_DateColumnIsDate ==
    infer_result # None =>
        LET values == C9_Values
            dates == \A i \in 1..Len(values) : C11_IsDateValue(values[i])
        IN  /\ (values # <<>> /\ ~C11_NumericOrBoolean(values) /\ dates)
                => infer_result = Some("date")
            /\ (values = <<>> \/ (~C11_NumericOrBoolean(values) /\ ~dates))
                => infer_result = Some("string")

\* C12: registering a well-formed CSV (a non-empty header row and n data rows)
\* leaves the dataset READY with a schema of exactly one table that has one
\* column per header, in header order, named by the stripped header and typed
\* by the inference engine on the sampled rows; row_count is n; and the
\* cached sample_rows is a prefix of the data rows of at most SampleRowLimit rows.
C12_WellFormed == {FileExample, FileHeaderOnly, FileZeros, FileLong, FileHuge}

C12_Registered(row, f) ==
    LET headers == Head(f.lines)
        data_rows == Tail(f.lines)
    IN  /\ row.status = "READY"
        /\ row.schema_json # None
        /\ Len(row.schema_json[1].tables) = 1
        /\ LET t == row.schema_json[1].tables[1]
           IN  /\ Len(t.columns) = Len(headers)
               /\ \A i \in 1..Len(headers) :
                     /\ t.columns[i].name = PyStrip(headers[i])
                     /\ t.columns[i].type =
                            InferColumnType(Prefix(data_rows, SampleRowLimit), i)
               /\ t.rowCount = Len(data_rows)
        /\ row.row_count = Some(Len(data_rows))
        /\ row.sample_rows # None
        /\ Len(row.sample_rows[1]) <= SampleRowLimit
        /\ row.sample_rows[1] = Prefix(data_rows, Len(row.sample_rows[1]))

C12_CsvRegistration ==
    [][\A d \in DatasetIds : \A f \in C12_WellFormed : \A answer \in SchemaAnswers :
          (Exists(d) /\ Row(d).connector_type = "CSV" /\ ProcessDatasetWith(d, Some(f), answer))
              => (~lastOp'.raised /\ C12_Registered(datasets'[d][1], f))]_vars

\* the file of headers id, name, score and two rows was registered:
\* integer, string, decimal and row_count 2
C12_Witness ==
    /\ lastOp.op = "create_dataset"
    /\ ~lastOp.raised
    /\ Exists(lastOp.ds)
    /\ C12_Registered(Row(lastOp.ds), FileExample)
    /\ Row(lastOp.ds).row_count = Some(2)
    /\ [i \in 1..3 |-> Row(lastOp.ds).schema_json[1].tables[1].columns[i].type]
           = <<"integer", "string", "decimal">>

\* C13: when the ingestion of a CSV fails (undecodable bytes, an empty file, a
\* missing header row), the registration raises and leaves the dataset with
\* status ERROR and an error_message, a null schema, no sample rows and no
\* Table record.
C13_Unparsable == {FileUndecodable, FileEmptyText, FileBlankHeader}

C13_ParseFailureIsTerminal ==
    [][\A d \in DatasetIds : \A f \in C13_Unparsable : \A answer \in SchemaAnswers :
          (Exists(d) /\ Row(d).connector_type = "CSV" /\ ProcessDatasetWith(d, Some(f), answer))
              => /\ lastOp'.raised
                 /\ datasets'[d][1].status = "ERROR"
                 /\ datasets'[d][1].error_message # None
                 /\ datasets'[d][1].schema_json = None
                 /\ datasets'[d][1].sample_rows = None
                 /\ \A i \in 1..Len(tables') : tables'[i].dataset_id # d]_vars

\* C14: delete_dataset on an existing dataset, whatever the number of its
\* Table records, removes the dataset and every Table record that references
\* its id.
C14_DeleteRemovesTables ==
    [][\A d \in DatasetIds :
          (Exists(d) /\ DeleteDataset(d))
              => /\ datasets'[d] = None
                 /\ \A i \in 1..Len(tables') : tables'[i].dataset_id # d]_vars

\* C15: in every reachable state every column of every persisted schema and
\* of every Table record has one of the six canonical types, whatever native
\* type names the backend reported; an unmapped native type is stored as string.
C15_CanonicalTypes == {"integer", "decimal", "boolean", "date", "datetime", "string"}

C15_ColumnsCanonical(columns) ==
    \A i \in 1..Len(columns) : columns[i].type \in C15_CanonicalTypes

C15_CanonicalTypesOnly ==
    /\ \A d \in DatasetIds :
          (Exists(d) /\ Row(d).schema_json # None)
              => \A t \in 1..Len(Row(d).schema_json[1].tables) :
                     C15_ColumnsCanonical(Row(d).schema_json[1].tables[t].columns)
    /\ \A i \in 1..Len(tables) : C15_ColumnsCanonical(tables[i].columns)

\* a catalog with the unmapped native type geometry was stored: the column
\* is there, typed string, in the schema and in the Table record
C15_Witness ==
    /\ Exists(1)
    /\ Row(1).schema_json # None
    /\ \E t \in 1..Len(Row(1).schema_json[1].tables) :
          \E c \in 1..Len(Row(1).schema_json[1].tables[t].columns) :
              Row(1).schema_json[1].tables[t].columns[c] = Col(<<"location">>, "string")
    /\ \E i \in 1..Len(tables) :
          \E c \in 1..Len(tables[i].columns) :
              tables[i].columns[c] = Col(<<"location">>, "string")

\* C16: when a caller of fetch_and_cache_schema commits while the record is
\* as another, finished caller of the same dataset wrote it, the persisted
\* schema, status and error_message afterwards are all the one caller's or all
\* the other's, never a mixture.
C16_Written(row) ==
    [schema_json |-> row.schema_json, status |-> row.status,
     error_message |-> row.error_message]

C16_NoMixedRecord ==
    [][\A c \in Callers : \A o \in Callers \ {c} :
          (/\ sessions[c] # None /\ sessions[o] # None
           /\ sessions[o][1].done
           /\ sessions[o][1].ds = sessions[c][1].ds
           /\ Exists(sessions[c][1].ds)
           /\ C16_Written(Row(sessions[c][1].ds)) = C16_Written(sessions[o][1].written)
           /\ FinishEnsureSchema(c))
              => C16_Written(datasets'[sessions[c][1].ds][1])
                     \in {C16_Written(sessions[o][1].written),
                          C16_Written(sessions'[c][1].written)}]_vars

\* C17: create_connector called with a connector type that has no registry
\* entry raises the unsupported-type error, constructs no connector, attempts
\* no network or file access and leaves the registry's keys as they were.
C17_UnsupportedTypeRejected ==
    (connect.op = "create_connector" /\ connect.connector_type \notin DOMAIN _connectors)
        => /\ connect.raised
           /\ connect.error = UnsupportedTypeError(connect.connector_type)
           /\ connect.instance = None
           /\ connect.io = 0
           /\ connect.registry = DOMAIN _connectors

\* create_connector was refused for ORACLE, which the registry does not have
C17_Witness ==
    /\ connect.op = "create_connector"
    /\ connect.connector_type = "ORACLE"
    /\ connect.raised
    /\ connect.instance = None

\* C18: a call on the connector layer with a configuration that lacks a field
\* the registry's requirements declare as required for the connector type
\* ends in an error, before a connector is built on the configuration and
\* before any network or file access is attempted.
C18_LacksRequiredField ==
    /\ connect.connector_type \in DOMAIN _connectors
    /\ ~(required_fields(connect.connector_type) \subseteq connect.config.fields)

C18_InvalidConfigurationRejected ==
    (connect.op \in {"create_connector", "test_connection", "test_data_source"}
     /\ C18_LacksRequiredField)
        => /\ connect.io = 0
           /\ connect.instance = None
           /\ \/ connect.raised
              \/ connect.result # None /\ ~connect.result[1].success

\* C19: test_connection of every connector class, on every configuration,
\* returns a (bool, message) pair and never raises, and the pair is (false,
\* reason) when its round trip failed; test_data_source always returns a
\* result, with success false when the type is unsupported, when no connector
\* could be built, or when the round trip failed.
C19_TestConnectionNeverRaises ==
    /\ connect.op = "test_connection"
          => /\ ~connect.raised
             /\ connect.result # None
             /\ connect.result[1].success \in BOOLEAN
             /\ connect.trip = "refused"
                   => (~connect.result[1].success /\ connect.result[1].message # <<>>)
    /\ connect.op = "test_data_source"
          => /\ ~connect.raised
             /\ connect.result # None
             /\ connect.connector_type \notin DOMAIN _connectors
                   => ~connect.result[1].success
             /\ connect.instance = None => ~connect.result[1].success
             /\ connect.trip = "refused"
                   => (~connect.result[1].success /\ connect.result[1].message # <<>>)

\* a PostgreSQL connector's round trip was refused and test_connection
\* returned (false, reason)
C19_Witness ==
    /\ connect.op = "test_connection"
    /\ connect.instance = Some("PostgreSQLConnector")
    /\ connect.trip = "refused"
    /\ ~connect.raised
    /\ connect.result = Some([success |-> FALSE,
                              message |-> <<"Connection failed: ", RefusedText>>])

\* C20: in every response query_dataset returns, on the cached-file path, the
\* live path and the synthetic path, total_rows is the number of rows in data.
C20_TotalRowsIsReturnedCount ==
    QueryReturned => lastOp.resp[1].total_rows = lastOp.resp[1].data_len

\* a live query returned fewer rows than the backend table holds, and
\* total_rows counts the returned ones
C20_Witness ==
    /\ QueryReturned
    /\ lastOp.path = "live"
    /\ lastOp.resp[1].data_len = 2
    /\ lastOp.resp[1].total_rows = 2

\* C21: when schema discovery fails while a dataset of a database type is
\* registered (no connector, get_schema raising or answering with an error),
\* the schema registration stores is the placeholder (no tables, marked with a
\* message), never tables that were not discovered, and no Table record is
\* added; so the schema is not taken as cached by the first query.
C21_DiscoveryFails(connector_type, answer) ==
    LET connector == create_connector(connector_type)
    IN  \/ connector = None
        \/ get_schema(connector[1], answer).raises
        \/ get_schema(connector[1], answer).error # None

C21_FailedDiscoveryStoresPlaceholder ==
    [][\A d \in DatasetIds : \A fc \in FileContents : \A answer \in SchemaAnswers :
          (/\ Exists(d)
           /\ Row(d).connector_type \in DatabaseTypes
           /\ C21_DiscoveryFails(Row(d).connector_type, answer)
           /\ ProcessDatasetWith(d, fc, answer))
              => /\ datasets'[d][1].schema_json = Some(PlaceholderSchema)
                 /\ ~SchemaIsCached(datasets'[d][1])
                 /\ tables' = tables]_vars


\* C22: after any interleaving of registration and fetch_and_cache_schema
\* calls, two concurrent callers included, the Table records hold at most one
\* row per (dataset_id, table name).
C22_OneTablePerName ==
    \A i, j \in 1..Len(tables) :
        (tables[i].dataset_id = tables[j].dataset_id /\ tables[i].name = tables[j].name)
            => i = j

\* C23: when test_connection, get_schema or execute_query of a relational
\* connector returns, with a result or with an error, the engine the call
\* created has been disposed.
C23_EngineReleased ==
    (/\ connect.op \in {"test_connection", "get_schema", "execute_query"}
     /\ connect.instance # None
     /\ connect.instance[1] \in RelationalConnectors)
        => connect.engine = "disposed"

\* C25: for every connector class, query text and limit >= 0, an execute_query
\* that returns rows returns at most limit rows, also when the query text has
\* its own LIMIT clause or names an identifier that contains "limit".
C25_AtMostLimitRows ==
    (/\ connect.op = "execute_query"
     /\ connect.limit >= 0
     /\ connect.result[1].error = None)
        => connect.result[1].data_len <= connect.limit

\* C24: a refresh_dataset call on a dataset of a live-connection type runs
\* schema discovery again (a get_schema call on the connector) and leaves the
\* dataset READY or ERROR; on a file-backed dataset it leaves schema_json,
\* sample_rows and row_count as they were.
C24_RefreshRediscovers ==
    [][\A d \in DatasetIds :
          (Exists(d) /\ RefreshDataset(d))
              => IF Row(d).connector_type \in LiveQueryTypes
                 THEN /\ "get_schema" \in Range(lastOp'.calls)
                      /\ datasets'[d][1].status \in {"READY", "ERROR"}
                 ELSE Row(d).connector_type \in CsvQueryTypes
                         => /\ datasets'[d][1].schema_json = Row(d).schema_json
                            /\ datasets'[d][1].sample_rows = Row(d).sample_rows
                            /\ datasets'[d][1].row_count = Row(d).row_count]_vars

\* C26: on a file-backed dataset whose cached sample holds s > 0 rows, a
\* query_dataset with limit L >= 0 returns the first min(L, s) cached rows in
\* their order, makes no connector call, and leaves the dataset row and the
\* Table rows as they were.
C26_HasSample(d) ==
    /\ Exists(d)
    /\ Row(d).connector_type \in CsvQueryTypes
    /\ Row(d).sample_rows # None
    /\ Len(Row(d).sample_rows[1]) > 0

C26_CachedSamplePrefix ==
    [][\A d \in DatasetIds :
          (/\ C26_HasSample(d)
           /\ QueryDataset(d)
           /\ QueryLimit(lastOp'.limit) >= 0)
              => /\ ~lastOp'.raised
                 /\ lastOp'.resp[1].data =
                        SubSeq(Row(d).sample_rows[1], 1,
                               Min(QueryLimit(lastOp'.limit), Len(Row(d).sample_rows[1])))
                 /\ lastOp'.resp[1].data_len = Len(lastOp'.resp[1].data)
                 /\ lastOp'.calls = <<>>
                 /\ datasets' = datasets
                 /\ tables' = tables]_vars

C26_Witness ==
    /\ C26_HasSample(1)
    /\ lastOp.op = "query_dataset"
    /\ ~lastOp.raised
    /\ lastOp.limit = Some(2)
    /\ Len(Row(1).sample_rows[1]) > 2
    /\ lastOp.resp[1].data = SubSeq(Row(1).sample_rows[1], 1, 2)

\* C27: a dataset whose status is READY has no error_message, and a dataset
\* whose status is ERROR has a non-empty error_message.
C27_StatusMatchesMessage ==
    \A d \in DatasetIds :
        Exists(d) =>
            /\ Row(d).status = "READY" => Row(d).error_message = None
            /\ Row(d).status = "ERROR" =>
                  (Row(d).error_message # None /\ Row(d).error_message[1] # <<>>)

\* C28: every create_dataset call ends with the dataset's persisted status
\* READY or ERROR, whether it returns or raises, for every declared connector
\* type and every payload (a CSV request without a file or with an empty file
\* included); the row is never left PROCESSING.
C28_RegistrationSettles ==
    [][\A d \in DatasetIds : \A fc \in FileContents : \A answer \in SchemaAnswers :
          (Exists(d) /\ ProcessDatasetDeclaredWith(d, fc, answer))
              => datasets'[d][1].status \in {"READY", "ERROR"}]_vars

\* C29: every connector type that create_dataset or query_dataset routes to
\* the live-connection path has a connector class in the factory's registry:
\* create_connector answers for the type of every such dataset.
C29_LiveTypesRegistered ==
    \A d \in DatasetIds :
        (Exists(d) /\ Row(d).connector_type \in DatabaseTypes \cup LiveQueryTypes)
            => create_connector(Row(d).connector_type) # None

\* C30: a query_dataset call on a file-backed dataset that registration left
\* READY (and that no refresh has touched since) returns a response, possibly
\* with zero rows; it does not raise.
C30_ReadyFileDatasetQueryable ==
    [][\A d \in DatasetIds :
          (/\ Exists(d)
           /\ Row(d).connector_type \in CsvQueryTypes
           /\ d \notin registering
           /\ Row(d).status = "READY"
           /\ ~Row(d).last_refresh
           /\ QueryDataset(d))
              => ~lastOp'.raised]_vars

============================================================================
